---- MODULE Spec2Model ----
(***************************************************************************)
(* Model of main.py: RetailInvestorStockAnalyzer.get_key_metrics,          *)
(* RetailInvestorStockAnalyzer.plot_price_history and main().              *)
(*                                                                         *)
(* Numbers are fixed-point integers counted in units of 1/Unit (1e-5), so   *)
(* 14.99 is 1499000.  Strings are sequences of one-character strings, so    *)
(* that formatting and parsing are computed character by character.        *)
(***************************************************************************)
EXTENDS Integers, Sequences, FiniteSets, TLC

\* ------------------------------------------------------------------ bounds
\* Largest number of rows of the downloaded price history.
MaxPoints == 1

\* ------------------------------------------------------------------ values
Unit == 10^5
Cent == Unit \div 100

\* A Python value held in the snapshot or in the metrics:
\*   kind "int"   : the integer m / Unit
\*   kind "float" : the binary float whose decimal notation is m / Unit; eps is
\*                  the sign of (binary value - decimal notation), which is what
\*                  decides a rounding tie such as 14.995
\*   kind "str"   : the string s
PyInt(n) == [kind |-> "int", m |-> n * Unit, eps |-> 0, s |-> <<>>]
PyFloat(m, eps) == [kind |-> "float", m |-> m, eps |-> eps, s |-> <<>>]
PyStr(s) == [kind |-> "str", m |-> 0, eps |-> 0, s |-> s]

IsNumber(v) == v.kind \in {"int", "float"}

Abs(n) == IF n < 0 THEN -n ELSE n

NA == <<"N", "/", "A">>
\* the rupee sign U+20B9, held as one character
Rupee == "Rs"

DigitChars == <<"0", "1", "2", "3", "4", "5", "6", "7", "8", "9">>

RECURSIVE Digits(_)
\* decimal digits of a natural number, most significant first
Digits(n) == IF n < 10 THEN <<DigitChars[n + 1]>>
             ELSE Append(Digits(n \div 10), DigitChars[(n % 10) + 1])

RECURSIVE GroupedDigits(_)
\* decimal digits of a natural number with a comma every three digits
GroupedDigits(n) ==
    IF n < 1000 THEN Digits(n)
    ELSE LET low == n % 1000
         IN GroupedDigits(n \div 1000) \o <<",">>
              \o <<DigitChars[(low \div 100) + 1],
                   DigitChars[((low \div 10) % 10) + 1],
                   DigitChars[(low % 10) + 1]>>

\* x * 100 on a number (line 33: info.get('dividendYield', 0)*100)
TimesHundred(v) == [v EXCEPT !.m = v.m * 100]

\* The number rounded to two decimals, in units of 1/Unit.  An int is
\* unchanged.  A float is rounded to the nearest hundredth of its binary
\* value; an exact tie (eps = 0) goes to the even hundredth.
RoundedM(v) ==
    IF v.kind = "int" THEN v.m
    ELSE LET a == Abs(v.m)
             sgn == IF v.m < 0 THEN -1 ELSE 1
             lo == a \div Cent
             rest == a % Cent
             \* eps is relative to the signed value; relative to |value| it flips
             e == sgn * v.eps
             up == \/ 2 * rest > Cent
                   \/ 2 * rest = Cent /\ e > 0
                   \/ 2 * rest = Cent /\ e = 0 /\ lo % 2 = 1
         IN sgn * (IF up THEN lo + 1 ELSE lo) * Cent

\* Is the number negative (a float that rounds to zero keeps its sign: "-0.00")
IsNegative(v) == v.m < 0 \/ (v.m = 0 /\ v.eps < 0)

\* round(x, 2): raises TypeError on a string
RoundRaises(v) == ~IsNumber(v)
Round2(v) == [kind |-> v.kind, m |-> RoundedM(v), eps |-> 0, s |-> <<>>]

\* format(x, ".2f"): raises ValueError on a string
Fmt2fRaises(v) == ~IsNumber(v)
Fmt2f(v) ==
    LET r == Abs(RoundedM(v))
        frac == (r % Unit) \div Cent
    IN (IF IsNegative(v) THEN <<"-">> ELSE <<>>)
         \o Digits(r \div Unit) \o <<".">>
         \o <<DigitChars[(frac \div 10) + 1], DigitChars[(frac % 10) + 1]>>

RECURSIVE StripZeros(_)
StripZeros(ds) == IF Len(ds) > 1 /\ ds[Len(ds)] = "0"
                  THEN StripZeros(SubSeq(ds, 1, Len(ds) - 1)) ELSE ds

\* the five fractional digits of a fixed-point magnitude
FracDigits(a) ==
    LET f == a % Unit
    IN <<DigitChars[(f \div 10000) + 1], DigitChars[((f \div 1000) % 10) + 1],
         DigitChars[((f \div 100) % 10) + 1], DigitChars[((f \div 10) % 10) + 1],
         DigitChars[(f % 10) + 1]>>

\* format(x, ","): raises ValueError on a string; an int has no fraction, a
\* float is written with its shortest fraction
FmtCommaRaises(v) == ~IsNumber(v)
FmtComma(v) ==
    LET a == Abs(v.m)
    IN (IF IsNegative(v) THEN <<"-">> ELSE <<>>)
         \o GroupedDigits(a \div Unit)
         \o (IF v.kind = "int" THEN <<>> ELSE <<".">> \o StripZeros(FracDigits(a)))

Currency(chars) == PyStr(<<Rupee>> \o chars)
Percent(chars) == PyStr(chars \o <<"%">>)

\* ------------------------------------------------------------------ parsing
DigitVal(c) == CHOOSE d \in 0..9 : DigitChars[d + 1] = c
IsDigit(c) == \E d \in 0..9 : DigitChars[d + 1] = c

RECURSIVE NatOf(_)
NatOf(ds) == IF Len(ds) = 0 THEN 0
             ELSE NatOf(SubSeq(ds, 1, Len(ds) - 1)) * 10 + DigitVal(ds[Len(ds)])

\* s.replace('%', '')
RemovePercent(s) == SelectSeq(s, LAMBDA c : c # "%")

Unsigned(s) == IF Len(s) > 0 /\ s[1] \in {"-", "+"} THEN SubSeq(s, 2, Len(s)) ELSE s
DotAt(s) == {i \in 1..Len(s) : s[i] = "."}
IntPart(s) == IF DotAt(s) = {} THEN s
              ELSE SubSeq(s, 1, (CHOOSE i \in DotAt(s) : TRUE) - 1)
FracPart(s) == IF DotAt(s) = {} THEN <<>>
               ELSE SubSeq(s, (CHOOSE i \in DotAt(s) : TRUE) + 1, Len(s))

\* float(s) raises ValueError unless s is a decimal literal: an optional sign,
\* digits, at most one point, at least one digit
FloatRaises(s) ==
    LET u == Unsigned(s)
    IN \/ Cardinality(DotAt(u)) > 1
       \/ \E i \in 1..Len(u) : ~IsDigit(u[i]) /\ u[i] # "."
       \/ Len(IntPart(u)) + Len(FracPart(u)) = 0

\* float(s), in units of 1/Unit (fraction digits beyond the fifth are dropped)
Float(s) ==
    LET u == Unsigned(s)
        frac == SubSeq(FracPart(u) \o <<"0", "0", "0", "0", "0">>, 1, 5)
        a == NatOf(IntPart(u)) * Unit + NatOf(frac)
    IN PyFloat(IF Len(s) > 0 /\ s[1] = "-" THEN -a ELSE a, 0)

\* ------------------------------------------------------------------ snapshot
Fields == {"currentPrice", "marketCap", "trailingPE", "priceToBook", "forwardPE",
           "dividendYield", "dividendRate", "payoutRatio", "fiftyTwoWeekHigh",
           "fiftyTwoWeekLow", "52WeekChange", "trailingEps", "forwardEps",
           "revenueGrowth"}

\* info.get(field, default)
Get(info, field, default) == IF field \in DOMAIN info THEN info[field] ELSE default

\* f"Rs{info.get(field, 'N/A'):.2f}"
CurrencyField(info, field) == Get(info, field, PyStr(NA))
\* round(info.get(field, 0), 2)
RatioField(info, field) == Get(info, field, PyInt(0))
PercentFieldDefaultOne(info, field) == TimesHundred(Get(info, field, PyInt(1)))
\* f"{info.get(field, 0)*100:.2f}%"
PercentField(info, field) == TimesHundred(Get(info, field, PyInt(0)))

CurrencyFields == {"currentPrice", "dividendRate", "fiftyTwoWeekHigh", "fiftyTwoWeekLow"}
RatioFields == {"trailingPE", "priceToBook", "forwardPE", "trailingEps", "forwardEps"}
PercentFields == {"dividendYield", "payoutRatio", "52WeekChange", "revenueGrowth"}

\* Does building the metrics dictionary raise (lines 21-51)?
MetricsRaise(info) ==
    \/ \E f \in CurrencyFields : Fmt2fRaises(CurrencyField(info, f))
    \/ FmtCommaRaises(Get(info, "marketCap", PyStr(NA)))
    \/ \E f \in RatioFields : RoundRaises(RatioField(info, f))
    \/ \E f \in PercentFields : Fmt2fRaises(PercentField(info, f))

Cur(info, f) == Currency(Fmt2f(CurrencyField(info, f)))
Rat(info, f) == Round2(RatioField(info, f))
Pct(info, f) == Percent(Fmt2f(PercentField(info, f)))

\* lines 23-29
ValuationGroup(info) ==
    <<"Valuation",
      << <<"Current Price", Cur(info, "currentPrice")>>,
         <<"Market Cap", Currency(FmtComma(Get(info, "marketCap", PyStr(NA))))>>,
         <<"P/E Ratio", Rat(info, "trailingPE")>>,
         <<"Price to Book", Rat(info, "priceToBook")>>,
         <<"Forward P/E", Rat(info, "forwardPE")>> >> >>

\* lines 32-36
DividendGroup(info) ==
    <<"Dividend",
      << <<"Dividend Yield", Pct(info, "dividendYield")>>,
         <<"Dividend Rate", Cur(info, "dividendRate")>>,
         <<"Payout Ratio", Pct(info, "payoutRatio")>> >> >>

\* lines 39-43
PerformanceGroup(info) ==
    <<"Performance",
      << <<"52-Week High", Cur(info, "fiftyTwoWeekHigh")>>,
         <<"52-Week Low", Cur(info, "fiftyTwoWeekLow")>>,
         <<"1Y Return", Pct(info, "52WeekChange")>> >> >>

\* lines 46-50
GrowthGroup(info) ==
    <<"Growth",
      << <<"EPS (Trailing)", Rat(info, "trailingEps")>>,
         <<"EPS (Forward)", Rat(info, "forwardEps")>>,
         <<"Revenue Growth", Pct(info, "revenueGrowth")>> >> >>

MetricsGrowthFirst(info) ==
    <<ValuationGroup(info), DividendGroup(info), GrowthGroup(info), PerformanceGroup(info)>>

\* The metrics dictionary (lines 21-51); a dict keeps its insertion order, so
\* it is a sequence of <<key, value>> pairs.
Metrics(info) ==
    <<ValuationGroup(info), DividendGroup(info), PerformanceGroup(info), GrowthGroup(info)>>

\* An optional dictionary: None, or a dictionary
None == [isNone |-> TRUE, dict |-> <<>>]
Some(d) == [isNone |-> FALSE, dict |-> d]
\* Python truth value of an optional dictionary (line 117: if metrics)
Truthy(x) == ~x.isNone /\ Len(x.dict) > 0

\* d[key] on a dictionary held as a sequence of pairs
Keys(d) == [i \in 1..Len(d) |-> d[i][1]]
Item(d, key) == d[CHOOSE i \in 1..Len(d) : d[i][1] = key][2]

\* ------------------------------------------------------------------ insights
PELow == 15
PEHigh == 25
YieldHigh == 3
YieldLow == 1
GrowthHigh == 10
GrowthLow == 5

Banner(level, text) == [level |-> level, text |-> text]

ValuationIndicatorInclusive(pe_ratio) ==
    IF pe_ratio.m <= PELow * Unit THEN Banner("success", "Low P/E - Potentially Undervalued")
    ELSE IF pe_ratio.m >= PEHigh * Unit
         THEN Banner("warning", "High P/E - Potentially Overvalued")
         ELSE Banner("info", "Reasonable Valuation")

ValuationIndicatorPositiveOnly(pe_ratio) ==
    IF pe_ratio.m > 0 /\ pe_ratio.m < PELow * Unit
    THEN Banner("success", "Low P/E - Potentially Undervalued")
    ELSE IF pe_ratio.m > PEHigh * Unit
         THEN Banner("warning", "High P/E - Potentially Overvalued")
         ELSE Banner("info", "Reasonable Valuation")

\* lines 151-157, on the number metrics['Valuation']['P/E Ratio']
ValuationIndicator(pe_ratio) ==
    IF pe_ratio.m < PELow * Unit THEN Banner("success", "Low P/E - Potentially Undervalued")
    ELSE IF pe_ratio.m > PEHigh * Unit
         THEN Banner("warning", "High P/E - Potentially Overvalued")
         ELSE Banner("info", "Reasonable Valuation")

DividendHealthInclusive(dividend_yield) ==
    IF dividend_yield.m >= YieldHigh * Unit THEN Banner("success", "High Dividend Yield")
    ELSE IF dividend_yield.m >= YieldLow * Unit THEN Banner("info", "Moderate Dividend")
         ELSE Banner("warning", "Low Dividend Yield")

\* lines 162-167, on the parsed number
DividendHealth(dividend_yield) ==
    IF dividend_yield.m > YieldHigh * Unit THEN Banner("success", "High Dividend Yield")
    ELSE IF dividend_yield.m > YieldLow * Unit THEN Banner("info", "Moderate Dividend")
         ELSE Banner("warning", "Low Dividend Yield")

GrowthPotentialInclusive(revenue_growth) ==
    IF revenue_growth.m >= GrowthHigh * Unit THEN Banner("success", "Strong Growth Potential")
    ELSE IF revenue_growth.m >= GrowthLow * Unit THEN Banner("info", "Moderate Growth")
         ELSE Banner("warning", "Limited Growth")

\* lines 172-177, on the parsed number
GrowthPotential(revenue_growth) ==
    IF revenue_growth.m > GrowthHigh * Unit THEN Banner("success", "Strong Growth Potential")
    ELSE IF revenue_growth.m > GrowthLow * Unit THEN Banner("info", "Moderate Growth")
         ELSE Banner("warning", "Limited Growth")

\* float(text.replace('%', '')) of a formatted metric (lines 161 and 171)
PercentText(value) == RemovePercent(value.s)

\* ------------------------------------------------------------------ provider
Tickers == {"", "INFY.NS"}

\* Values the provider may report per field
PEValues == {PyFloat(-320000, 0), PyFloat(1499500, -1), PyFloat(1499500, 1),
             PyFloat(1500000, 0), PyFloat(2500000, 0), PyFloat(2501000, 0),
             PyStr(<<"I", "n", "f", "i", "n", "i", "t", "y">>)}
YieldValues == {PyFloat(1000, 0), PyFloat(1010, 0), PyFloat(3004, 0), PyFloat(3010, 0)}
GrowthValues == {PyFloat(-2000, 0), PyFloat(5000, 0), PyFloat(5010, 0),
                 PyFloat(10000, 0), PyFloat(10005, 1)}

\* the value reported for each field with no part in the insights
Reported(f) ==
    CASE f = "marketCap" -> PyInt(12345)
      [] f = "currentPrice" -> PyFloat(152345000, 0)
      [] f = "fiftyTwoWeekHigh" -> PyFloat(173210000, 0)
      [] f = "fiftyTwoWeekLow" -> PyFloat(120000000, 0)
      [] f = "dividendRate" -> PyFloat(3400000, 0)
      [] f = "payoutRatio" -> PyFloat(41250, 0)
      [] f = "52WeekChange" -> PyFloat(-8125, -1)
      [] f = "priceToBook" -> PyFloat(812500, 0)
      [] f = "forwardPE" -> PyFloat(2267800, 1)
      [] f = "trailingEps" -> PyFloat(6234000, 0)
      [] f = "forwardEps" -> PyInt(70)

AdvisoryFields == {"trailingPE", "dividendYield", "revenueGrowth"}

\* The sets of fields a snapshot may lack: none, any one, the three that feed
\* the insights, or all
AbsentSets == {{}} \cup {{f} : f \in Fields} \cup {AdvisoryFields, Fields}

Snapshots ==
    {[f \in Fields \ A |->
         CASE f = "trailingPE" -> pe
           [] f = "dividendYield" -> dy
           [] f = "revenueGrowth" -> rg
           [] OTHER -> Reported(f)] :
       A \in AbsentSets, pe \in PEValues, dy \in YieldValues, rg \in GrowthValues}

\* What yf.download hands back without raising: a frame with or without a
\* Close column and with some number of rows
Frames == [hasClose : BOOLEAN, rows : 0..MaxPoints]

\* ------------------------------------------------------------------ state
VARIABLES
    pc,              \* where main() stands
    ticker,          \* st.text_input
    analyze_button,  \* st.button
    info,            \* the snapshot get_key_metrics read: [raised, fields]
    metrics,         \* what get_key_metrics returned
    calls,           \* provider calls issued so far, in order
    errors,          \* st.error messages, in order
    header,          \* st.header of the company, if rendered
    tiles,           \* st.tabs / st.metric: <<category, <<name, value>>...>>
    frame,           \* the frame plot_price_history downloaded: [raised, df]
    chart,           \* st.plotly_chart, if rendered
    insights         \* Quick Insights banners, in order

vars == <<pc, ticker, analyze_button, info, metrics, calls, errors, header, tiles,
          frame, chart, insights>>

NoFields == [f \in {} |-> PyInt(0)]
NoFrame == [raised |-> FALSE, fetched |-> FALSE, df |-> [hasClose |-> FALSE, rows |-> 0]]

Init ==
    /\ pc = "input"
    /\ ticker = ""
    /\ analyze_button = FALSE
    /\ info = [raised |-> FALSE, fields |-> NoFields]
    /\ metrics = None
    /\ calls = <<>>
    /\ errors = <<>>
    /\ header = <<>>
    /\ tiles = <<>>
    /\ frame = NoFrame
    /\ chart = <<>>
    /\ insights = <<>>

\* lines 102-113: the widgets deliver their values and main decides whether to
\* analyse
Input ==
    /\ pc = "input"
    /\ \E t \in Tickers, b \in BOOLEAN :
         /\ ticker' = t
         /\ analyze_button' = b
         /\ pc' = IF t # "" \/ b THEN "get_key_metrics" ELSE "done"
    /\ UNCHANGED <<info, metrics, calls, errors, header, tiles, frame, chart, insights>>

\* get_key_metrics on a snapshot the provider delivered (lines 17-53)
KeyMetricsResult(fields) == IF MetricsRaise(fields) THEN None ELSE Some(Metrics(fields))
KeyMetricsErrors(fields) ==
    IF MetricsRaise(fields) THEN <<"Error fetching stock data">> ELSE <<>>

AfterMetricsAlways(m) == "display"

\* line 117
AfterMetrics(m) == IF Truthy(m) THEN "display" ELSE "done"

\* line 115 with the provider raising inside get_key_metrics (lines 17-18,
\* 55-57)
GetKeyMetricsFetchFails ==
    /\ pc = "get_key_metrics"
    /\ calls' = Append(calls, "info")
    /\ info' = [raised |-> TRUE, fields |-> NoFields]
    /\ errors' = Append(errors, "Error fetching stock data")
    /\ metrics' = None
    /\ pc' = AfterMetrics(metrics')
    /\ UNCHANGED <<ticker, analyze_button, header, tiles, frame, chart, insights>>

\* line 115 with the provider delivering a snapshot (lines 17-57)
GetKeyMetrics ==
    /\ pc = "get_key_metrics"
    /\ \E s \in Snapshots :
         /\ info' = [raised |-> FALSE, fields |-> s]
         /\ metrics' = KeyMetricsResult(s)
         /\ errors' = errors \o KeyMetricsErrors(s)
    /\ calls' = Append(calls, "info")
    /\ pc' = AfterMetrics(metrics')
    /\ UNCHANGED <<ticker, analyze_button, header, tiles, frame, chart, insights>>

\* lines 119-120 when stock.info raises: nothing catches it and the script run
\* ends
DisplayNameFetchFails ==
    /\ pc = "display"
    /\ calls' = Append(calls, "info")
    /\ pc' = "crashed"
    /\ UNCHANGED <<ticker, analyze_button, info, metrics, errors, header, tiles, frame,
                   chart, insights>>

\* lines 119-136: the company header from a second snapshot, then one tab per
\* category with one tile per metric
DisplayMetrics ==
    /\ pc = "display"
    /\ calls' = Append(calls, "info")
    /\ \E named \in BOOLEAN :
         header' = <<IF named THEN "longName" ELSE ticker>>
    /\ tiles' = metrics.dict
    /\ pc' = "chart"
    /\ UNCHANGED <<ticker, analyze_button, info, metrics, errors, frame, chart, insights>>

\* plot_price_history on a downloaded frame: df['Close'] raises KeyError when
\* the column is missing (line 76), otherwise the figure is built from
\* whatever rows there are (lines 73-90)
PlotRaises(df) == ~df.hasClose
Figure(t, df) == [title |-> t, points |-> df.rows]
\* line 142: a Figure object is always true
FigureTruthy(fig) == TRUE

PlotPriceHistoryFetchRetries ==
    /\ pc = "chart"
    /\ calls' = calls \o <<"history", "history">>
    /\ frame' = [NoFrame EXCEPT !.raised = TRUE, !.fetched = TRUE]
    /\ errors' = Append(errors, "Error creating stock chart")
    /\ chart' = <<>>
    /\ pc' = "valuation"
    /\ UNCHANGED <<ticker, analyze_button, info, metrics, header, tiles, insights>>

\* line 140 with yf.download raising (lines 70, 92-94)
PlotPriceHistoryFetchFails ==
    /\ pc = "chart"
    /\ calls' = Append(calls, "history")
    /\ frame' = [NoFrame EXCEPT !.raised = TRUE, !.fetched = TRUE]
    /\ errors' = Append(errors, "Error creating stock chart")
    /\ chart' = <<>>
    /\ pc' = "valuation"
    /\ UNCHANGED <<ticker, analyze_button, info, metrics, header, tiles, insights>>

\* lines 139-143 with yf.download delivering a frame
PlotPriceHistory ==
    /\ pc = "chart"
    /\ calls' = Append(calls, "history")
    /\ \E df \in Frames :
         /\ frame' = [raised |-> FALSE, fetched |-> TRUE, df |-> df]
         /\ IF PlotRaises(df)
            THEN /\ errors' = Append(errors, "Error creating stock chart")
                 /\ chart' = <<>>
            ELSE /\ errors' = errors
                 /\ chart' = IF FigureTruthy(Figure(ticker, df))
                             THEN <<Figure(ticker, df)>> ELSE <<>>
    /\ pc' = "valuation"
    /\ UNCHANGED <<ticker, analyze_button, info, metrics, header, tiles, insights>>

\* lines 149-157
ValuationInsight ==
    /\ pc = "valuation"
    /\ insights' = Append(insights,
                          ValuationIndicator(Item(Item(metrics.dict, "Valuation"), "P/E Ratio")))
    /\ pc' = "dividend"
    /\ UNCHANGED <<ticker, analyze_button, info, metrics, calls, errors, header, tiles,
                   frame, chart>>

DividendText == PercentText(Item(Item(metrics.dict, "Dividend"), "Dividend Yield"))
GrowthText == PercentText(Item(Item(metrics.dict, "Growth"), "Revenue Growth"))

\* lines 159-167: float() raising ends the script run
DividendInsight ==
    /\ pc = "dividend"
    /\ IF FloatRaises(DividendText)
       THEN /\ pc' = "crashed"
            /\ insights' = insights
       ELSE /\ pc' = "growth"
            /\ insights' = Append(insights, DividendHealth(Float(DividendText)))
    /\ UNCHANGED <<ticker, analyze_button, info, metrics, calls, errors, header, tiles,
                   frame, chart>>

\* lines 169-177
GrowthInsight ==
    /\ pc = "growth"
    /\ IF FloatRaises(GrowthText)
       THEN /\ pc' = "crashed"
            /\ insights' = insights
       ELSE /\ pc' = "done"
            /\ insights' = Append(insights, GrowthPotential(Float(GrowthText)))
    /\ UNCHANGED <<ticker, analyze_button, info, metrics, calls, errors, header, tiles,
                   frame, chart>>

Next ==
    \/ Input
    \/ GetKeyMetricsFetchFails
    \/ GetKeyMetrics
    \/ DisplayNameFetchFails
    \/ DisplayMetrics
    \/ PlotPriceHistoryFetchFails
    \/ PlotPriceHistory
    \/ ValuationInsight
    \/ DividendInsight
    \/ GrowthInsight

Spec == Init /\ [][Next]_vars

\* ------------------------------------------------------------------ claims
Fetched == Len(calls) >= 1
Lacks(f) == Fetched /\ ~info.raised /\ f \notin DOMAIN info.fields
Entry(category, label) == Item(Item(metrics.dict, category), label)
Text(chars) == PyStr(chars)

\* C1: when the provider call inside get_key_metrics raises, exactly one error
\* is reported, the result is None, the call is not repeated, and main renders
\* no header, no tiles, no chart and no banner: the run is over.
C1_FetchFailureVoidsAnalysis ==
    info.raised =>
        /\ metrics = None
        /\ errors = <<"Error fetching stock data">>
        /\ calls = <<"info">>
        /\ header = <<>> /\ tiles = <<>> /\ chart = <<>> /\ insights = <<>>
        /\ pc = "done"

C1_Witness == info.raised /\ pc = "done" /\ ticker = "" /\ analyze_button

\* C2: a snapshot that lacks fields, and whose other fields are numbers, still
\* gives the four metric groups and no error.
C2_AbsenceNeverFails ==
    (Fetched /\ ~info.raised /\ \A f \in DOMAIN info.fields : IsNumber(info.fields[f])) =>
        /\ ~metrics.isNone
        /\ Len(metrics.dict) = 4
        /\ errors = <<>>

GroupNames == <<"Valuation", "Dividend", "Performance", "Growth">>
GroupLabels ==
    << <<"Current Price", "Market Cap", "P/E Ratio", "Price to Book", "Forward P/E">>,
       <<"Dividend Yield", "Dividend Rate", "Payout Ratio">>,
       <<"52-Week High", "52-Week Low", "1Y Return">>,
       <<"EPS (Trailing)", "EPS (Forward)", "Revenue Growth">> >>
GroupSizes == [i \in 1..Len(metrics.dict) |-> Len(metrics.dict[i][2])]
RECURSIVE Sum(_)
Sum(sq) == IF Len(sq) = 0 THEN 0 ELSE sq[1] + Sum(Tail(sq))

FixedGrouping ==
    /\ Keys(metrics.dict) = GroupNames
    /\ GroupSizes = <<5, 3, 3, 3>>
    /\ \A i \in 1..4 : Keys(metrics.dict[i][2]) = GroupLabels[i]

\* C3 as stated: every successful result holds 16 fields in the four groups
\* Valuation, Dividend, Performance, Growth of 5, 3, 3 and 3 entries, labels in
\* the fixed order.
C3_Original == ~metrics.isNone => FixedGrouping /\ Sum(GroupSizes) = 16

\* C3 as amended: every successful result holds 14 fields in the four groups
\* Valuation, Dividend, Performance, Growth of 5, 3, 3 and 3 entries, labels in
\* the fixed order, whichever fields the snapshot has.
C3_FixedGrouping == ~metrics.isNone => FixedGrouping /\ Sum(GroupSizes) = 14

C3_Witness == ~metrics.isNone /\ DOMAIN info.fields = Fields \ AdvisoryFields

\* C4: the valuation banner is Success iff P/E < 15, Warning iff P/E > 25 and
\* Info iff 15 <= P/E <= 25.
C4_ValuationThresholds ==
    Len(insights) >= 1 =>
        LET v == Entry("Valuation", "P/E Ratio").m
        IN /\ insights[1] = Banner("success", "Low P/E - Potentially Undervalued")
                <=> v < 15 * Unit
           /\ insights[1] = Banner("warning", "High P/E - Potentially Overvalued")
                <=> v > 25 * Unit
           /\ insights[1] = Banner("info", "Reasonable Valuation")
                <=> (15 * Unit <= v /\ v <= 25 * Unit)

C4_Witness ==
    /\ Len(insights) >= 1
    /\ Entry("Valuation", "P/E Ratio").m = 15 * Unit
    /\ insights[1].text = "Reasonable Valuation"

\* C5: with p the number parsed from the formatted Dividend Yield, the dividend
\* banner is Success iff p > 3, Info iff 1 < p <= 3 and Warning iff p <= 1.
C5_DividendThresholds ==
    Len(insights) >= 2 =>
        LET p == Float(RemovePercent(Entry("Dividend", "Dividend Yield").s)).m
        IN /\ insights[2] = Banner("success", "High Dividend Yield") <=> p > 3 * Unit
           /\ insights[2] = Banner("info", "Moderate Dividend")
                <=> (1 * Unit < p /\ p <= 3 * Unit)
           /\ insights[2] = Banner("warning", "Low Dividend Yield") <=> p <= 1 * Unit

C5_Witness ==
    /\ Len(insights) >= 2
    /\ Entry("Dividend", "Dividend Yield") = Text(<<"3", ".", "0", "0", "%">>)
    /\ info.fields["dividendYield"].m * 100 > 3 * Unit
    /\ insights[2].text = "Moderate Dividend"

\* C6: with g the number parsed from the formatted Revenue Growth, the growth
\* banner is Success iff g > 10, Info iff 5 < g <= 10 and Warning iff g <= 5.
C6_GrowthThresholds ==
    Len(insights) >= 3 =>
        LET g == Float(RemovePercent(Entry("Growth", "Revenue Growth").s)).m
        IN /\ insights[3] = Banner("success", "Strong Growth Potential") <=> g > 10 * Unit
           /\ insights[3] = Banner("info", "Moderate Growth")
                <=> (5 * Unit < g /\ g <= 10 * Unit)
           /\ insights[3] = Banner("warning", "Limited Growth") <=> g <= 5 * Unit

C6_Witness ==
    /\ Len(insights) >= 3
    /\ Entry("Growth", "Revenue Growth") = Text(<<"1", "0", ".", "0", "0", "%">>)
    /\ insights[3].text = "Moderate Growth"

\* C7: a download that returns zero rows without raising makes
\* plot_price_history report an error and main render no chart.
C7_EmptyHistoryIsFailure ==
    (frame.fetched /\ ~frame.raised /\ frame.df.rows = 0) =>
        /\ chart = <<>>
        /\ errors = <<"Error creating stock chart">>

IsPrefix(sq, full) == Len(sq) <= Len(full) /\ sq = SubSeq(full, 1, Len(sq))

\* C8 as stated: one analysis issues at most two provider calls, the snapshot
\* fetch and then the price-history fetch.
C8_Original == IsPrefix(calls, <<"info", "history">>)

\* C8 as amended: one analysis issues at most three provider calls, in this
\* order: the snapshot fetch of get_key_metrics, a second snapshot fetch for
\* the company name, and the price-history fetch.
C8_AtMostThreeCalls == IsPrefix(calls, <<"info", "info", "history">>)

C8_Witness == pc = "done" /\ calls = <<"info", "info", "history">>

NAPercent == Text(<<"N", "/", "A", "%">>)
ZeroPercent == Text(<<"0", ".", "0", "0", "%">>)

\* C9 as stated: a snapshot without dividendYield (revenueGrowth) gives the
\* entry "N/A%", and main never gets past parsing it: no banner for that
\* section.
C9_Original ==
    /\ (Lacks("dividendYield") /\ ~metrics.isNone) =>
          /\ Entry("Dividend", "Dividend Yield") = NAPercent
          /\ Len(insights) < 2
    /\ (Lacks("revenueGrowth") /\ ~metrics.isNone) =>
          /\ Entry("Growth", "Revenue Growth") = NAPercent
          /\ Len(insights) < 3

\* C9 as amended: a snapshot without dividendYield (revenueGrowth) gives the
\* entry "0.00%", which parses, and the banner of that section is Warning "Low
\* Dividend Yield" ("Limited Growth"); the run never ends in a parse error.
C9_MissingPercentIsZero ==
    /\ (Lacks("dividendYield") /\ ~metrics.isNone) =>
          /\ Entry("Dividend", "Dividend Yield") = ZeroPercent
          /\ ~FloatRaises(DividendText)
          /\ pc \in {"growth", "done"} => /\ Len(insights) >= 2
                                          /\ insights[2] = Banner("warning", "Low Dividend Yield")
    /\ (Lacks("revenueGrowth") /\ ~metrics.isNone) =>
          /\ Entry("Growth", "Revenue Growth") = ZeroPercent
          /\ ~FloatRaises(GrowthText)
          /\ pc = "done" => /\ Len(insights) = 3
                            /\ insights[3] = Banner("warning", "Limited Growth")
    /\ pc = "crashed" => insights = <<>>

C9_Witness ==
    /\ pc = "done" /\ Len(insights) = 3
    /\ Lacks("dividendYield") /\ Lacks("revenueGrowth")
    /\ insights[2].text = "Low Dividend Yield"
    /\ insights[3].text = "Limited Growth"

\* C10: a snapshot without trailingPE gives the P/E Ratio 0, and every P/E
\* below 15, zero and negative included, gets the Success banner.
C10_MissingPEIsUndervalued ==
    /\ (Lacks("trailingPE") /\ ~metrics.isNone) => Entry("Valuation", "P/E Ratio") = PyInt(0)
    /\ (pc \in {"dividend", "growth", "done"} /\ ~metrics.isNone
          /\ Entry("Valuation", "P/E Ratio").m < 15 * Unit) =>
          /\ Len(insights) >= 1
          /\ insights[1] = Banner("success", "Low P/E - Potentially Undervalued")

C10_Witness ==
    /\ Lacks("trailingPE")
    /\ Len(insights) >= 1
    /\ insights[1] = Banner("success", "Low P/E - Potentially Undervalued")

====
